---- MODULE Spec2Model ----
(***************************************************************************)
(* Incremental parallel export-and-cache engine of godot-examples-docsh.   *)
(*                                                                         *)
(* Two entry points drive exports of the same project tree:                *)
(*   - build_system/scons_build.py : BuildEnvironment (content-hash cache, *)
(*     _needs_rebuild, Build over a ThreadPoolExecutor, main's exit code); *)
(*   - build_system/build.py       : main's bulk path over GodotExporter   *)
(*     (verify_godot_binary, export_projects_parallel, get_export_summary, *)
(*     create_fallback_export).                                            *)
(*                                                                         *)
(* A project directory p is identified with its manifest: the file         *)
(* p/project.godot is "the file p".  File contents are small integers,     *)
(* 0 meaning that the file does not exist.                                 *)
(***************************************************************************)
EXTENDS Integers, Sequences, FiniteSets, TLC

\* ---------------------------------------------------------------- bounds
NumProjects == 2      \* project directories under the projects root
MaxContent  == 2      \* distinct contents a project.godot can have
MaxJobs     == 2      \* largest --jobs value tried
MaxTargets  == 2      \* longest self.targets list
MaxPasses   == 2      \* process runs (main invocations) in a behaviour
MaxEdits    == 1      \* source edits between runs in a behaviour
MaxResults == 2
MaxDeps     == 2      \* longest explicit dependency list of a target
MaxFiles   == 3      \* most tracked files of a project
MaxCalls   == 2      \* calls of project_needs_rebuild on one scanner
MaxCpus     == 9      \* largest multiprocessing.cpu_count() tried

Projects == 1..NumProjects
Contents == 0..MaxContent

NoEntry  == [none |-> TRUE]
NoResult == [none |-> TRUE]
NoHash   == -1                 \* dict.get() returning None
NoSummary == [none |-> TRUE]
NoCall   == [fn |-> "none"]

\* "full": a sink that implements every method main and the exporter call
\*         (info, warning, error, success, update_progress);
\* "repo": tools/progress_reporter.ProgressReporter, which defines none of
\*         them, so that each such call raises AttributeError.
\* A third kind, "flaky", is a full sink whose calls can raise (its output
\* stream is closed or cannot encode the message); it is examined on its own.
SinkKinds == {"repo", "full"}

VARIABLES
    \* ---- file system
    manifest,          \* manifest[p]: content of p/project.godot, 0 = missing
    html,              \* html[p]: p/exports/web/index.html: "none" | "real" | "fallback"
    wasm,              \* wasm[p]: p/exports/web/index.wasm exists
    fresh,             \* fresh[p]: index.html is at least as new as every source file of p
    diskCache,         \* .build_cache/build_cache.json: [kind, data], kind being
                       \*   "absent" | "ok" | "corrupt" (text that is not JSON)
                       \*   | "undecodable" (bytes that are not UTF-8)
    \* ---- BuildEnvironment
    force_rebuild,     \* options['force_rebuild']
    jobs,              \* options['jobs']
    targets,           \* self.targets
    build_cache,       \* self.build_cache
    \* ---- one Build pass
    pc,                \* position of the main thread
    to_build,          \* targets_to_build
    job,               \* job[i]: state of the future submitted for to_build[i]
    result,            \* result[i]: BuildResult of the future, NoResult before
    successful_builds,
    failed_builds,
    retval,            \* Build's return value: "none" | "true" | "false"
    exitCode,          \* exit status of the process, -1 while it runs
    preflight,         \* outcome of the run's "--version" check: "none" | "ok" | "failed"
    continue_on_error, \* args.continue_on_error of the run
    tool,              \* entry point of the current run: "none" | "scons" | "bulk" | "diag"
    \* ---- build.py bulk path (GodotExporter)
    sink,              \* the ProgressSink handed to main and the exporter
    project_files,     \* list(projects_dir.rglob("project.godot"))
    results,           \* export_projects_parallel's result list
    summary,           \* get_export_summary(results), NoSummary before
    \* ---- observation
    attempts,          \* attempts[i]: export subprocesses started for job i
    max_retries,       \* retries the caller of this run asked for
    writes,            \* writes[i]: _update_cache calls for the i-th job
    saves,             \* _save_cache calls in this pass
    passes,            \* process runs so far
    edits,             \* source edits so far
    clean,             \* nothing changed since a Build pass returned
    prevTargets,       \* target list of that pass
    secondRun,         \* the current pass started from a clean state
    \* ---- tools/parallel_manager.ParallelManager
    pm,                \* the instance: [cpu_count, available_memory, soft_fd];
                       \*   available_memory counts half gigabytes
    environ,           \* os.environ: [CI, MAX_PARALLEL_JOBS]
    call               \* the last call of a function checked on its own:
                       \*   [fn, args, ret], NoCall before

engineVars ==
        << manifest, html, wasm, fresh, diskCache, force_rebuild, jobs, targets,
           sink, project_files, results, summary, attempts, max_retries,
           build_cache, pc, to_build, job, result, successful_builds,
           failed_builds, retval, exitCode, preflight, continue_on_error,
           tool, writes, saves, passes, edits, clean, prevTargets,
           secondRun >>

vars == << engineVars, pm, environ, call >>

fsVars   == << manifest, html, wasm, fresh >>
cfgVars  == << force_rebuild, jobs, sink, pm, environ, call >>
runVars  == << project_files, results, summary, max_retries >>
obsVars  == << passes, edits, clean, prevTargets, secondRun >>
sconsVars == << targets, build_cache, diskCache, to_build, successful_builds,
                failed_builds, retval, continue_on_error, writes, saves,
                prevTargets, secondRun >>
passVars == << to_build, job, result, successful_builds, failed_builds,
               writes, saves, attempts >>

\* ------------------------------------------------------------- helpers
Range(s) == { s[i] : i \in DOMAIN s }

\* a digest that only tells an existing file from a missing one
get_file_hash_exists(p) ==
    IF manifest[p] = 0 THEN 0 ELSE 1

\* hashlib.md5 over the file's bytes: injective on the contents tried here,
\* and the empty string for a missing (or unreadable) file.
get_file_hash(p) ==
    IF manifest[p] = 0 THEN 0 ELSE ((manifest[p] * 7) % 11) + 1

\* cache_entry.get('dependencies', {}).get(str(dep))
DepGet(entry, d) ==
    IF d \in DOMAIN entry.dependencies THEN entry.dependencies[d] ELSE NoHash

\* a check that compares hashes without asking whether the files exist
needs_rebuild_hashes_only(t) ==
    LET p == t.project_path IN
    \/ force_rebuild
    \/ html[p] = "none"
    \/ build_cache[p] = NoEntry
    \/ build_cache[p].project_hash # get_file_hash(p)
    \/ \E i \in DOMAIN t.dependencies :
          DepGet(build_cache[p], t.dependencies[i])
             # get_file_hash(t.dependencies[i])

needs_rebuild(t) ==
    LET p == t.project_path IN
    \/ force_rebuild
    \/ html[p] = "none"
    \/ build_cache[p] = NoEntry
    \/ manifest[p] = 0
    \/ build_cache[p].project_hash # get_file_hash(p)
    \/ \E i \in DOMAIN t.dependencies :
          LET d == t.dependencies[i] IN
          \/ manifest[d] = 0
          \/ DepGet(build_cache[p], d) # get_file_hash(d)

\* an entry that records no dependency hash
CacheEntryNoDeps(t, res) ==
    [ project_hash |-> get_file_hash(t.project_path),
      dependencies |-> [ d \in {} |-> 0 ],
      success      |-> res.success ]

\* _update_cache: the entry stored for a finished target
CacheEntry(t, res) ==
    [ project_hash |-> get_file_hash(t.project_path),
      dependencies |-> [ d \in Range(t.dependencies) |-> get_file_hash(d) ],
      success      |-> res.success ]

update_cache(t, res) ==
    build_cache' = [build_cache EXCEPT ![t.project_path] = CacheEntry(t, res)]

\* AddTarget(project_path): project.godot is the only (implicit) dependency,
\* appended when the file exists.
AddTarget(p) ==
    [ project_path |-> p,
      dependencies |-> IF manifest[p] # 0 THEN << p >> ELSE << >> ]

\* root_path.rglob('project.godot'), one AddTarget per manifest found
RECURSIVE ScanFrom(_)
ScanFrom(p) ==
    IF p > NumProjects THEN << >>
    ELSE IF manifest[p] # 0 THEN << AddTarget(p) >> \o ScanFrom(p + 1)
    ELSE ScanFrom(p + 1)

RECURSIVE FilterStale(_)
FilterStale(ts) ==
    IF ts = << >> THEN << >>
    ELSE IF needs_rebuild(Head(ts)) THEN << Head(ts) >> \o FilterStale(Tail(ts))
    ELSE FilterStale(Tail(ts))

InFlight == { i \in DOMAIN job : job[i] = "running" }
Queued   == { i \in DOMAIN job : job[i] = "queued" }

\* a pool that starts one thread per submitted future
PoolPerFuture(n) == Cardinality(InFlight) < Len(job)

\* ThreadPoolExecutor(max_workers=n): a queued future starts only while fewer
\* than n threads are busy
PoolHasIdleWorker(n) == Cardinality(InFlight) < n

\* a future whose export failed is put back on the queue
AfterAttemptRequeue(res) == IF res.success THEN "finished" ELSE "queued"

\* The worker function returns after its one subprocess.run, whatever the
\* outcome; neither pool loop submits a target again.
AfterAttempt(res) == "finished"

EmptyCache == [ p \in Projects |-> NoEntry ]

\* _load_cache: an absent or unparsable file leaves the cache empty
load_cache == IF diskCache.kind = "ok" THEN diskCache.data ELSE EmptyCache

\* --------------------------------------------------------------- Init
\* A tree that was never built; no process has run yet.
\* a fresh checkout: manifests, no exports, no cache
InitDisk ==
    /\ manifest = [ p \in Projects |-> 1 ]
    /\ html = [ p \in Projects |-> "none" ]
    /\ build_cache = EmptyCache
    /\ force_rebuild \in BOOLEAN

InitRun ==
    /\ wasm = [ p \in Projects |-> FALSE ]
    /\ fresh = [ p \in Projects |-> FALSE ]
    /\ diskCache = [kind |-> "absent", data |-> EmptyCache]
    /\ jobs \in 0..MaxJobs
    /\ targets = << >>
    /\ pc = "start"
    /\ to_build = << >>
    /\ job = << >>
    /\ result = << >>
    /\ successful_builds = 0
    /\ failed_builds = 0
    /\ retval = "none"
    /\ exitCode = -1
    /\ preflight = "none"
    /\ continue_on_error = FALSE
    /\ tool = "none"
    /\ writes = << >>
    /\ saves = 0
    /\ passes = 0
    /\ edits = 0
    /\ clean = FALSE
    /\ prevTargets = << >>
    /\ secondRun = FALSE
    /\ project_files = << >>
    /\ results = << >>
    /\ summary = NoSummary
    /\ attempts = << >>
    /\ max_retries = 0

InitEngine == InitDisk /\ InitRun /\ sink \in SinkKinds

\* ... on a two-core machine outside CI
Init ==
    /\ InitEngine
    /\ pm = [cpu_count |-> 2, available_memory |-> 16, soft_fd |-> 1024]
    /\ environ = [CI |-> FALSE, MAX_PARALLEL_JOBS |-> [kind |-> "unset"]]
    /\ call = NoCall

\* ------------------------------------------------------------ actions
\* BuildEnvironment.__init__ of a new process: _load_cache, then _verify_godot,
\* which raises FileNotFoundError when no usable binary is found (main then
\* prints "Build failed" and exits 1).  _load_cache catches JSONDecodeError
\* and IOError only: the UnicodeDecodeError of an undecodable file leaves the
\* constructor before _verify_godot is reached, and main exits 1 as well.
NewEnvironment ==
    /\ pc \in {"start", "exited"}
    /\ passes < MaxPasses
    /\ passes' = passes + 1
    /\ tool' = "scons"
    /\ build_cache' = load_cache
    /\ clean' = (clean /\ load_cache = build_cache)
    /\ targets' = << >>
    /\ to_build' = << >>
    /\ job' = << >>
    /\ result' = << >>
    /\ writes' = << >>
    /\ saves' = 0
    /\ successful_builds' = 0
    /\ failed_builds' = 0
    /\ retval' = "none"
    /\ continue_on_error' = FALSE
    /\ secondRun' = FALSE
    /\ \E found \in BOOLEAN :
          IF diskCache.kind = "undecodable"
          THEN /\ preflight' = "none"
               /\ pc' = "exited"
               /\ exitCode' = 1
          ELSE IF found
          THEN /\ preflight' = "ok"
               /\ pc' = "idle"
               /\ exitCode' = -1
          ELSE /\ preflight' = "failed"
               /\ pc' = "exited"
               /\ exitCode' = 1
    /\ attempts' = << >>
    /\ max_retries' = 0
    /\ project_files' = << >>
    /\ results' = << >>
    /\ summary' = NoSummary
    /\ UNCHANGED << fsVars, diskCache, cfgVars, edits, prevTargets >>

\* env.ScanForProjects(projects_dir)
ScanForProjects ==
    /\ pc = "idle"
    /\ Len(targets) + Len(ScanFrom(1)) <= MaxTargets
    /\ ScanFrom(1) # << >>
    /\ targets' = targets \o ScanFrom(1)
    /\ UNCHANGED << fsVars, diskCache, cfgVars, runVars, build_cache, pc, passVars,
                    retval, exitCode, preflight, tool, continue_on_error, passes,
                    edits, clean, prevTargets, secondRun >>

\* Build(targets): filter, early returns, pool creation and submission
BuildStart ==
    /\ pc = "idle"
    /\ secondRun' = (clean /\ targets = prevTargets /\ ~force_rebuild)
    /\ LET tb == FilterStale(targets) IN
       IF targets = << >> \/ tb = << >>
       THEN \* "No targets to build" / "All targets are up-to-date"
            /\ pc' = "returned"
            /\ retval' = "true"
            /\ to_build' = tb
            /\ clean' = TRUE
            /\ prevTargets' = targets
            /\ UNCHANGED << job, result, writes, attempts >>
       ELSE IF jobs <= 0
       THEN \* ThreadPoolExecutor(max_workers=0) raises ValueError
            /\ pc' = "raised"
            /\ to_build' = tb
            /\ clean' = FALSE
            /\ UNCHANGED << retval, prevTargets, job, result, writes, attempts >>
       ELSE /\ pc' = "running"
            /\ to_build' = tb
            /\ job' = [ i \in 1..Len(tb) |-> "queued" ]
            /\ result' = [ i \in 1..Len(tb) |-> NoResult ]
            /\ writes' = [ i \in 1..Len(tb) |-> 0 ]
            /\ attempts' = [ i \in 1..Len(tb) |-> 0 ]
            /\ clean' = FALSE
            /\ UNCHANGED << retval, prevTargets >>
    /\ UNCHANGED << fsVars, diskCache, cfgVars, runVars, targets, build_cache,
                    successful_builds, failed_builds, exitCode, preflight, tool,
                    continue_on_error, saves, passes,
                    edits >>

\* What the first part of _export_project does before the subprocess starts:
\*   "ok"           the preset is in place and the export directory exists
\*   "preset_error" _create_export_preset raises something that is not an
\*                  IOError (a UnicodeDecodeError on an existing preset file)
\*   "mkdir_error"  export_dir.mkdir raises
PreSteps == {"ok", "preset_error", "mkdir_error"}

BuildResult(ok, rc, err) == [ success |-> ok, rc |-> rc, error |-> err ]

\* A pool thread takes the next queued future (FIFO) and runs _export_project
\* up to subprocess.run.
WorkerStart(i) ==
    /\ pc \in {"running", "aborting"}
    /\ i \in Queued
    /\ \A k \in Queued : i <= k
    /\ PoolHasIdleWorker(jobs)
    /\ \E pre \in PreSteps :
          CASE pre = "ok" ->
                  /\ job' = [job EXCEPT ![i] = "running"]
                  /\ attempts' = [attempts EXCEPT ![i] = @ + 1]
                  /\ UNCHANGED result
            [] pre = "preset_error" ->
                  /\ job' = [job EXCEPT ![i] = "raised"]
                  /\ UNCHANGED << result, attempts >>
            [] pre = "mkdir_error" ->
                  /\ job' = [job EXCEPT ![i] = "finished"]
                  /\ result' = [result EXCEPT ![i] =
                                   BuildResult(FALSE, "none", "mkdir")]
                  /\ UNCHANGED attempts
    /\ UNCHANGED << fsVars, diskCache, cfgVars, runVars, targets, build_cache, pc,
                    to_build, successful_builds, failed_builds, writes, saves,
                    retval, exitCode, preflight, tool, continue_on_error, obsVars >>

\* How the "godot --headless --export-release" subprocess can end:
\*   "exit0_written"  status 0, index.html and index.wasm written
\*   "exit0_partial"  status 0, index.html written, no index.wasm
\*   "exit0_nothing"  status 0, nothing written
\*   "nonzero"        status # 0, nothing written
\*   "timeout"        subprocess.TimeoutExpired after 300 s
\*   "oserror"        subprocess.run raises (binary or cwd vanished)
Outcomes == {"exit0_written", "exit0_partial", "exit0_nothing", "nonzero",
             "timeout", "oserror"}

ExitStatus(out) ==
    CASE out \in {"exit0_written", "exit0_partial", "exit0_nothing"} -> "zero"
      [] out = "nonzero" -> "nonzero"
      [] OTHER -> "none"

\* files of project p after the subprocess ended with outcome out
HtmlAfter(p, out) ==
    IF out \in {"exit0_written", "exit0_partial"} THEN "real" ELSE html[p]
WasmAfter(p, out) ==
    IF out = "exit0_written" THEN TRUE ELSE wasm[p]
FreshAfter(p, out) ==
    IF out \in {"exit0_written", "exit0_partial"} THEN TRUE ELSE fresh[p]

\* _export_project after subprocess.run: the BuildResult it returns
export_project(p, out) ==
    CASE out = "timeout" -> BuildResult(FALSE, "none", "timeout")
      [] out = "oserror" -> BuildResult(FALSE, "none", "exception")
      [] OTHER ->
           LET success == HtmlAfter(p, out) # "none" /\ WasmAfter(p, out) IN
           BuildResult(success, ExitStatus(out),
                       IF success THEN "None" ELSE "stderr")

\* The subprocess of job i ends and _export_project returns.  A project
\* without project.godot cannot be exported, so nothing is written for it.
WorkerFinish(i) ==
    /\ pc \in {"running", "aborting"}
    /\ i \in InFlight
    /\ LET p == to_build[i].project_path IN
       \E out \in Outcomes :
          /\ (manifest[p] = 0) => out \notin {"exit0_written", "exit0_partial"}
          /\ html' = [html EXCEPT ![p] = HtmlAfter(p, out)]
          /\ wasm' = [wasm EXCEPT ![p] = WasmAfter(p, out)]
          /\ fresh' = [fresh EXCEPT ![p] = FreshAfter(p, out)]
          /\ result' = [result EXCEPT ![i] = export_project(p, out)]
          /\ job' = [job EXCEPT ![i] = AfterAttempt(export_project(p, out))]
    /\ UNCHANGED << manifest, diskCache, cfgVars, runVars, targets, build_cache, pc,
                    to_build, successful_builds, failed_builds, writes, saves, attempts,
                    retval, exitCode, preflight, tool, continue_on_error, obsVars >>

\* One iteration of "for future in as_completed(...)": future.result(),
\* _update_cache, the tallies.  future.result() re-raises what the worker
\* raised; nothing in Build catches it, so the with-block is left.
Collect(i) ==
    /\ pc = "running"
    /\ i \in DOMAIN job
    /\ \/ /\ job[i] = "finished"
          /\ update_cache(to_build[i], result[i])
          /\ writes' = [writes EXCEPT ![i] = @ + 1]
          /\ job' = [job EXCEPT ![i] = "collected"]
          /\ IF result[i].success
             THEN /\ successful_builds' = successful_builds + 1
                  /\ UNCHANGED failed_builds
             ELSE /\ failed_builds' = failed_builds + 1
                  /\ UNCHANGED successful_builds
          /\ UNCHANGED pc
       \/ /\ job[i] = "raised"
          /\ job' = [job EXCEPT ![i] = "reraised"]
          /\ pc' = "aborting"
          /\ UNCHANGED << build_cache, writes, successful_builds,
                          failed_builds >>
    /\ UNCHANGED << fsVars, diskCache, cfgVars, runVars, targets, to_build, result,
                    saves, attempts, retval, exitCode, preflight, tool, continue_on_error,
                    obsVars >>

\* _save_cache: open(cache_file, 'w') truncates the file, json.dump writes it;
\* an IOError is logged.  A failed open leaves the old file, a failed write
\* leaves a truncated one.
SaveOutcomes == {"ok", "open_failed", "write_failed"}

save_cache(how) ==
    CASE how = "ok" -> [kind |-> "ok", data |-> build_cache]
      [] how = "open_failed" -> diskCache
      [] how = "write_failed" -> [kind |-> "corrupt", data |-> EmptyCache]

\* Every future was handled: the with-block ends, _save_cache, the summary,
\* return failed_builds == 0.
BuildEnd ==
    /\ pc = "running"
    /\ \A i \in DOMAIN job : job[i] = "collected"
    /\ \E how \in SaveOutcomes : diskCache' = save_cache(how)
    /\ saves' = saves + 1
    /\ retval' = IF failed_builds = 0 THEN "true" ELSE "false"
    /\ pc' = "returned"
    /\ clean' = TRUE
    /\ prevTargets' = targets
    /\ UNCHANGED << fsVars, cfgVars, runVars, targets, build_cache, to_build, job,
                    result, attempts, successful_builds, failed_builds, writes, exitCode,
                    preflight, tool, continue_on_error, passes, edits,
                    secondRun >>

\* The exception leaves the with-block: ThreadPoolExecutor.__exit__ waits for
\* every submitted future, then the exception leaves Build.
BuildAbort ==
    /\ pc = "aborting"
    /\ Queued = {} /\ InFlight = {}
    /\ pc' = "raised"
    /\ UNCHANGED << fsVars, diskCache, cfgVars, runVars, targets, build_cache, passVars,
                    retval, exitCode, preflight, tool, continue_on_error, obsVars >>

\* main's "Exit with appropriate code" for a Build that returned success
main_exit_code(coe, success) ==
    IF coe THEN 0 ELSE IF success THEN 0 ELSE 1

\* main after env.Build: sys.exit per --continue-on-error; an exception out
\* of Build is caught by main's "except Exception" and exits 1.
MainExit ==
    /\ pc \in {"returned", "raised"}
    /\ \E coe \in BOOLEAN :
          /\ continue_on_error' = coe
          /\ exitCode' = IF pc = "raised" THEN 1
                         ELSE main_exit_code(coe, retval = "true")
    /\ pc' = "exited"
    /\ UNCHANGED << fsVars, diskCache, cfgVars, runVars, targets, build_cache, passVars,
                    retval, preflight, tool, obsVars >>

\* Between two runs somebody rewrites or deletes a project.godot.
Edit(p, c) ==
    /\ pc = "exited"
    /\ edits < MaxEdits
    /\ c # manifest[p]
    /\ manifest' = [manifest EXCEPT ![p] = c]
    /\ fresh' = [fresh EXCEPT ![p] = IF c = 0 THEN @ ELSE FALSE]
    /\ edits' = edits + 1
    /\ clean' = FALSE
    /\ UNCHANGED << html, wasm, diskCache, cfgVars, runVars, targets, build_cache, pc,
                    passVars, retval, exitCode, preflight, tool, continue_on_error,
                    passes, prevTargets, secondRun >>

\* Between two runs the cache file is lost or damaged: deleted, overwritten
\* with text that is not JSON, or with bytes that are not UTF-8.
DamageCache ==
    /\ pc = "exited"
    /\ edits < MaxEdits
    /\ \E k \in {"absent", "corrupt", "undecodable"} :
          /\ k # diskCache.kind
          /\ diskCache' = [kind |-> k, data |-> EmptyCache]
    /\ edits' = edits + 1
    /\ clean' = FALSE
    /\ UNCHANGED << fsVars, cfgVars, runVars, targets, build_cache, pc,
                    passVars, retval, exitCode, preflight, tool,
                    continue_on_error, passes, prevTargets, secondRun >>

\* ------------------------------------------------- build.py bulk path
\* export_size and export_time are Optional: a size is given with every
\* success, a time only when the subprocess ran.  Sizes and times are
\* counted in whole units.
None == -1
ExportResult(ok, p, rc, err) ==
    [ success |-> ok, project_path |-> p, rc |-> rc, error |-> err,
      export_size |-> IF ok THEN 1 ELSE None,
      export_time |-> IF ok /\ rc = "zero" THEN 1 ELSE None ]

\* list(projects_dir.rglob("project.godot"))
RECURSIVE FindProjects(_)
FindProjects(p) ==
    IF p > NumProjects THEN << >>
    ELSE IF manifest[p] # 0 THEN << p >> \o FindProjects(p + 1)
    ELSE FindProjects(p + 1)

Min(a, b) == IF a <= b THEN a ELSE b

\* export_projects_parallel: batch_size = min(max_workers, len(project_files))
batch_size == Min(jobs, Len(project_files))

\* GodotExporter.get_export_summary
RECURSIVE FailedNames(_)
FailedNames(rs) ==
    IF rs = << >> THEN << >>
    ELSE IF ~Head(rs).success
         THEN << Head(rs).project_path >> \o FailedNames(Tail(rs))
         ELSE FailedNames(Tail(rs))

\* "x or 0" on an Optional number
OrZero(x) == IF x = None THEN 0 ELSE x

\* sum(... for r in rs)
RECURSIVE SumSize(_)
SumSize(rs) ==
    IF rs = << >> THEN 0 ELSE OrZero(Head(rs).export_size) + SumSize(Tail(rs))

RECURSIVE SumTime(_)
SumTime(rs) ==
    IF rs = << >> THEN 0 ELSE OrZero(Head(rs).export_time) + SumTime(Tail(rs))

\* a / b of Python: a quotient kept as numerator and denominator; a zero
\* denominator is the ZeroDivisionError.  The literal 0 is 0 / 1.
TrueDiv(a, b) == [ num |-> a, den |-> b ]
Zero == TrueDiv(0, 1)
IsSuccess(r) == r.success
IsFailure(r) == ~r.success

\* a summary that totals over every result and divides unguarded
get_export_summary_all(rs) ==
    [ total_projects      |-> Len(rs),
      successful          |-> Len(SelectSeq(rs, IsSuccess)),
      failed              |-> Len(SelectSeq(rs, IsFailure)),
      success_rate        |-> TrueDiv(Len(SelectSeq(rs, IsSuccess)), Len(rs)),
      total_export_size   |-> SumSize(rs),
      total_export_time   |-> SumTime(rs),
      average_export_time |-> TrueDiv(SumTime(rs),
                                      Len(SelectSeq(rs, IsSuccess))),
      failed_projects     |-> FailedNames(rs) ]

get_export_summary(rs) ==
    LET successful == SelectSeq(rs, IsSuccess)
        failed     == SelectSeq(rs, IsFailure)
        total_size == SumSize(successful)
        total_time == SumTime(successful)
        avg_time   == IF successful # << >>
                      THEN TrueDiv(total_time, Len(successful)) ELSE Zero
    IN  [ total_projects      |-> Len(rs),
          successful          |-> Len(successful),
          failed              |-> Len(failed),
          success_rate        |-> IF rs # << >>
                                  THEN TrueDiv(Len(successful), Len(rs))
                                  ELSE Zero,
          total_export_size   |-> total_size,
          total_export_time   |-> total_time,
          average_export_time |-> avg_time,
          failed_projects     |-> FailedNames(rs) ]

\* create_fallback_export for every project of the set ps
FallbackHtml(ps) == [ p \in Projects |-> IF p \in ps THEN "fallback" ELSE html[p] ]
FallbackFresh(ps) == [ p \in Projects |-> IF p \in ps THEN TRUE ELSE fresh[p] ]

\* build.py main up to the project scan.  The first progress.info call
\* raises AttributeError on the repository's ProgressReporter; main's handler
\* calls progress.error, which raises again, and the interpreter exits with
\* status 1.  With change detection on and nothing changed at all (no
\* project, nor the build system or the docs) main returns 0 before the
\* scan.  The build branch scans every project whatever the change set is.
BulkMain ==
    /\ pc \in {"start", "exited"}
    /\ passes < MaxPasses
    /\ passes' = passes + 1
    /\ tool' = "bulk"
    /\ job' = << >>
    /\ result' = << >>
    /\ attempts' = << >>
    /\ results' = << >>
    /\ summary' = NoSummary
    /\ max_retries' = 0
    /\ preflight' = "none"
    /\ clean' = FALSE
    /\ \E raises \in BOOLEAN :
       IF sink = "repo" \/ (sink = "flaky" /\ raises)
       THEN /\ project_files' = << >>
            /\ pc' = "exited"
            /\ exitCode' = 1
       ELSE \E has_changes \in BOOLEAN :
            IF ~has_changes /\ ~force_rebuild
            THEN \* "No changes detected - skipping build"
                 /\ project_files' = << >>
                 /\ pc' = "exited"
                 /\ exitCode' = 0
            ELSE /\ project_files' = FindProjects(1)
                 /\ IF FindProjects(1) = << >>
                    THEN pc' = "exited" /\ exitCode' = 0
                    ELSE pc' = "found" /\ exitCode' = -1
    /\ UNCHANGED << fsVars, cfgVars, sconsVars, edits >>

\* exporter.verify_godot_binary(): on failure a fallback page is written for
\* every project and main goes on to exit 0; otherwise
\* export_projects_parallel creates the pool and submits every project.
\* ThreadPoolExecutor raises ValueError for a pool size below 1, which main's
\* handler turns into exit status 1.
BulkVerify ==
    /\ pc = "found"
    /\ \E ok \in BOOLEAN :
          IF ~ok
          THEN /\ preflight' = "failed"
               /\ html' = FallbackHtml(Range(project_files))
               /\ fresh' = FallbackFresh(Range(project_files))
               /\ pc' = "exited"
               /\ exitCode' = 0
               /\ UNCHANGED << job, result, attempts >>
          ELSE /\ preflight' = "ok"
               /\ UNCHANGED << html, fresh >>
               /\ IF batch_size <= 0
                  THEN /\ pc' = "exited"
                       /\ exitCode' = 1
                       /\ UNCHANGED << job, result, attempts >>
                  ELSE /\ pc' = "exporting"
                       /\ job' = [ i \in DOMAIN project_files |-> "queued" ]
                       /\ result' = [ i \in DOMAIN project_files |-> NoResult ]
                       /\ attempts' = [ i \in DOMAIN project_files |-> 0 ]
                       /\ UNCHANGED exitCode
    /\ UNCHANGED << manifest, wasm, cfgVars, runVars, sconsVars, passes, edits,
                    clean, tool >>

\* _is_export_up_to_date: index.html exists and no source file is newer
is_export_up_to_date(p) == html[p] # "none" /\ fresh[p]

\* What export_project_to_web does before the subprocess starts:
\*   "ok"            directory and preset are in place
\*   "mkdir_error"   export_dir.mkdir raises (outside any try)
\*   "preset_error"  create_web_export_preset returns False
BulkPreSteps == {"ok", "mkdir_error", "preset_error"}

\* A pool thread takes the next queued future and runs export_project_to_web
\* up to subprocess.run.
BulkWorkerStart(i) ==
    /\ pc \in {"exporting", "bulk_aborting"}
    /\ i \in Queued
    /\ \A k \in Queued : i <= k
    /\ PoolHasIdleWorker(batch_size)
    /\ LET p == project_files[i] IN
       \E pre \in BulkPreSteps :
          IF manifest[p] = 0
          THEN /\ job' = [job EXCEPT ![i] = "finished"]
               /\ result' = [result EXCEPT ![i] =
                                ExportResult(FALSE, p, "none", "no_manifest")]
               /\ UNCHANGED attempts
          ELSE IF pre = "mkdir_error"
          THEN /\ job' = [job EXCEPT ![i] = "raised"]
               /\ UNCHANGED << result, attempts >>
          ELSE IF is_export_up_to_date(p) /\ ~force_rebuild
          THEN /\ job' = [job EXCEPT ![i] = "finished"]
               /\ result' = [result EXCEPT ![i] =
                                ExportResult(TRUE, p, "none", "None")]
               /\ UNCHANGED attempts
          ELSE IF pre = "preset_error"
          THEN /\ job' = [job EXCEPT ![i] = "finished"]
               /\ result' = [result EXCEPT ![i] =
                                ExportResult(FALSE, p, "none", "preset")]
               /\ UNCHANGED attempts
          ELSE /\ job' = [job EXCEPT ![i] = "running"]
               /\ attempts' = [attempts EXCEPT ![i] = @ + 1]
               /\ UNCHANGED result
    /\ UNCHANGED << fsVars, cfgVars, runVars, sconsVars, pc, exitCode,
                    preflight, tool, passes, edits, clean >>

\* export_project_to_web after subprocess.run: the ExportResult it returns
export_project_to_web(p, out) ==
    CASE out = "timeout" -> ExportResult(FALSE, p, "none", "timeout")
      [] out = "oserror" -> ExportResult(FALSE, p, "none", "exception")
      [] OTHER ->
           IF ExitStatus(out) = "zero" /\ HtmlAfter(p, out) # "none"
           THEN ExportResult(TRUE, p, "zero", "None")
           ELSE ExportResult(FALSE, p, ExitStatus(out), "export_failed")

BulkWorkerFinish(i) ==
    /\ pc \in {"exporting", "bulk_aborting"}
    /\ i \in InFlight
    /\ LET p == project_files[i] IN
       \E out \in Outcomes :
          /\ (manifest[p] = 0) => out \notin {"exit0_written", "exit0_partial"}
          /\ html' = [html EXCEPT ![p] = HtmlAfter(p, out)]
          /\ wasm' = [wasm EXCEPT ![p] = WasmAfter(p, out)]
          /\ fresh' = [fresh EXCEPT ![p] = FreshAfter(p, out)]
          /\ result' = [result EXCEPT ![i] = export_project_to_web(p, out)]
          /\ job' = [job EXCEPT ![i] = AfterAttempt(export_project_to_web(p, out))]
    /\ UNCHANGED << manifest, cfgVars, runVars, sconsVars, pc, attempts,
                    exitCode, preflight, tool, passes, edits, clean >>

\* How the progress calls of one iteration end:
\*   "ok"             every call returns
\*   "update_raises"  progress.update_progress raises, progress.error returns
\*   "error_raises"   progress.error raises (after update_progress raised,
\*                    or after the worker's exception)
Reports == {"ok", "update_raises", "error_raises"}

\* One iteration of "for future in as_completed(...)" in
\* export_projects_parallel: the result is appended and the progress is
\* reported inside one try block; its handler reports the exception and
\* appends a failed ExportResult, for an exception of the worker and for
\* one of the report alike.  An exception of the handler leaves the loop.
BulkCollect(i) ==
    /\ pc = "exporting"
    /\ i \in DOMAIN job
    /\ job[i] \in {"finished", "raised"}
    /\ \E report \in Reports :
          LET failure == ExportResult(FALSE, project_files[i], "none",
                                      "exception")
              appended == IF job[i] = "finished"
                          THEN Append(results, result[i]) ELSE results
          IN  /\ (sink # "flaky") => report = "ok"
              /\ (job[i] = "raised") => report # "update_raises"
              /\ results' = IF report = "error_raises" THEN appended
                            ELSE IF job[i] = "raised" \/ report = "update_raises"
                            THEN Append(appended, failure)
                            ELSE appended
              /\ pc' = IF report = "error_raises" THEN "bulk_aborting" ELSE pc
    /\ job' = [job EXCEPT ![i] = "collected"]
    /\ UNCHANGED << fsVars, cfgVars, project_files, summary, max_retries,
                    sconsVars, result, attempts, exitCode, preflight, tool,
                    passes, edits, clean >>

\* The exception leaves the with-block, which joins the pool, and reaches
\* main's handler: exit status 1.
BulkAbort ==
    /\ pc = "bulk_aborting"
    /\ Queued = {} /\ InFlight = {}
    /\ pc' = "exited"
    /\ exitCode' = 1
    /\ UNCHANGED << fsVars, cfgVars, runVars, sconsVars, job, result, attempts,
                    preflight, tool, passes, edits, clean >>

FailedProjects(rs) == { rs[k].project_path : k \in { j \in DOMAIN rs : ~rs[j].success } }

\* main's return value after the summary: 1 only when every export failed
bulk_exit_code(sm) ==
    IF sm.failed > 0 /\ sm.successful = 0 THEN 1 ELSE 0

\* main after export_projects_parallel: the summary, a fallback page for
\* every failed result, "return 1" only when nothing succeeded.
BulkEnd ==
    /\ pc = "exporting"
    /\ \A i \in DOMAIN job : job[i] = "collected"
    /\ summary' = get_export_summary(results)
    /\ html' = FallbackHtml(FailedProjects(results))
    /\ fresh' = FallbackFresh(FailedProjects(results))
    /\ exitCode' = bulk_exit_code(get_export_summary(results))
    /\ pc' = "exited"
    /\ UNCHANGED << manifest, wasm, cfgVars, project_files, results,
                    max_retries, sconsVars, job, result, attempts, preflight, tool,
                    passes, edits, clean >>

\* diagnostics.test_single_export: GodotExporter has no method
\* export_project_with_retry, so the call raises AttributeError before any
\* subprocess is started; the handler reports the test as failed.
test_single_export ==
    /\ pc \in {"start", "exited"}
    /\ passes < MaxPasses
    /\ manifest[1] # 0
    /\ passes' = passes + 1
    /\ tool' = "diag"
    /\ max_retries' = 1
    /\ project_files' = << 1 >>
    /\ job' = << "raised" >>
    /\ result' = << NoResult >>
    /\ attempts' = << 0 >>
    /\ results' = << >>
    /\ summary' = NoSummary
    /\ preflight' = "none"
    /\ exitCode' = 0
    /\ pc' = "exited"
    /\ clean' = FALSE
    /\ UNCHANGED << fsVars, cfgVars, sconsVars, edits >>

\* --------------------------------------- tools/parallel_manager.py
Max(a, b) == IF a >= b THEN a ELSE b

\* any(var in os.environ for var in ['CI', 'GITHUB_ACTIONS', ...])
is_ci == environ.CI

\* the readings a ParallelManager can be constructed with
MemoryReadings == {0, 3, 9, 30}
SoftFdLimits   == {-1, 20, 35, 120, 1024}
ParallelManagers ==
    [ cpu_count : 1..MaxCpus, available_memory : MemoryReadings,
      soft_fd : SoftFdLimits ]

\* values of the MAX_PARALLEL_JOBS variable: not set, the empty string, a
\* string int() rejects, or the decimal text of an integer
EnvJobs ==
    { [kind |-> "unset"], [kind |-> "empty"], [kind |-> "invalid"] }
       \cup { [kind |-> "int", value |-> k] : k \in {0, 1, 5, 12} }
Environs == [ CI : BOOLEAN, MAX_PARALLEL_JOBS : EnvJobs ]

\* min(base_jobs, memory_limited_jobs, fd_limited_jobs); int(GB / 1.5) is
\* the number of half gigabytes divided by 3
optimal_jobs ==
    LET base_jobs == IF is_ci THEN pm.cpu_count ELSE Max(1, pm.cpu_count - 1)
        memory_limited_jobs == Max(1, pm.available_memory \div 3)
        fd_limited_jobs == Max(1, pm.soft_fd \div 50)
    IN  Min(base_jobs, Min(memory_limited_jobs, fd_limited_jobs))

\* an override returned as it was parsed
env_override_unclamped(k) == k

\* "return max(1, int(env_jobs))"
env_override(k) == Max(1, k)

\* an override that only lowers the computed count
get_optimal_job_count_capped ==
    IF environ.MAX_PARALLEL_JOBS.kind = "int"
    THEN Min(env_override(environ.MAX_PARALLEL_JOBS.value),
             IF pm.cpu_count >= 2 THEN Max(2, optimal_jobs) ELSE 1)
    ELSE IF pm.cpu_count >= 2 THEN Max(2, optimal_jobs) ELSE 1

\* ParallelManager.get_optimal_job_count
get_optimal_job_count ==
    IF environ.MAX_PARALLEL_JOBS.kind = "int"
    THEN env_override(environ.MAX_PARALLEL_JOBS.value)
    ELSE IF pm.cpu_count >= 2 THEN Max(2, optimal_jobs) ELSE 1

\* A ParallelManager is constructed on some machine, in some environment.
InitJobs ==
    /\ InitEngine
    /\ sink = "full" /\ ~force_rebuild /\ jobs = 1
    /\ pm \in ParallelManagers
    /\ environ \in Environs
    /\ call = NoCall

\* get_optimal_job_count() is called on a new manager
CallOptimal ==
    /\ call = NoCall
    /\ call' = [fn |-> "get_optimal_job_count", ret |-> get_optimal_job_count]
    /\ UNCHANGED << engineVars, pm, environ >>

\* the load percentages a call is tried with (psutil.cpu_percent when the
\* argument is None)
Loads == {0, 60, 61, 80, 81, 100}

\* the project counts a call is tried with
ProjectCounts == {0, 1, 50, 51, 100, 101}

\* a reduction under load with no floor of one job
get_dynamic_job_count_unfloored(current_load) ==
    LET base_jobs == get_optimal_job_count IN
    IF current_load > 80 THEN base_jobs \div 2
    ELSE IF current_load > 60 THEN (3 * base_jobs) \div 4
    ELSE base_jobs

\* ParallelManager.get_dynamic_job_count; int(base_jobs * 0.75) is
\* (3 * base_jobs) \div 4
get_dynamic_job_count(current_load) ==
    LET base_jobs == get_optimal_job_count IN
    IF current_load > 80 THEN Max(1, base_jobs \div 2)
    ELSE IF current_load > 60 THEN Max(1, (3 * base_jobs) \div 4)
    ELSE base_jobs

\* ParallelManager.get_memory_efficient_job_count
\* a count that caps large builds only by the file-descriptor ceiling
get_memory_efficient_job_count_fd_only(project_count) ==
    LET base_jobs == get_optimal_job_count IN
    IF project_count > 100
    THEN Min(base_jobs, pm.soft_fd \div (IF is_ci THEN 30 ELSE 40))
    ELSE base_jobs

get_memory_efficient_job_count(project_count) ==
    LET base_jobs == get_optimal_job_count IN
    IF is_ci
    THEN IF project_count > 100
         THEN Min(base_jobs, Min(6, pm.soft_fd \div 30))
         ELSE IF project_count > 50 THEN Min(base_jobs, 8)
         ELSE base_jobs
    ELSE IF project_count > 100
         THEN Min(base_jobs, Min(4, pm.soft_fd \div 40))
         ELSE IF project_count > 50 THEN Min(base_jobs, 5)
         ELSE base_jobs

\* ParallelManager.get_adaptive_job_count; a project_count of None or 0 is
\* falsy and takes get_optimal_job_count
get_adaptive_job_count(project_count, current_load) ==
    LET memory_jobs == IF project_count # 0
                       THEN get_memory_efficient_job_count(project_count)
                       ELSE get_optimal_job_count
        dynamic_jobs == get_dynamic_job_count(current_load)
    IN  Min(memory_jobs, dynamic_jobs)

\* get_dynamic_job_count(load) is called on a new manager
CallDynamic ==
    /\ call = NoCall
    /\ \E load \in Loads :
          call' = [fn |-> "get_dynamic_job_count", current_load |-> load,
                   ret |-> get_dynamic_job_count(load)]
    /\ UNCHANGED << engineVars, pm, environ >>

\* get_memory_efficient_job_count(n) is called on a new manager
CallMemoryEfficient ==
    /\ call = NoCall
    /\ \E n \in ProjectCounts :
          call' = [fn |-> "get_memory_efficient_job_count", project_count |-> n,
                   ret |-> get_memory_efficient_job_count(n)]
    /\ UNCHANGED << engineVars, pm, environ >>

\* get_adaptive_job_count(n, load) is called on a new manager
CallAdaptive ==
    /\ call = NoCall
    /\ \E n \in ProjectCounts, load \in Loads :
          call' = [fn |-> "get_adaptive_job_count", project_count |-> n,
                   current_load |-> load,
                   ret |-> get_adaptive_job_count(n, load)]
    /\ UNCHANGED << engineVars, pm, environ >>

\* values of args.jobs: the option not given (None), or its integer
JobArgs ==
    { [given |-> FALSE] } \cup { [given |-> TRUE, value |-> k] : k \in {0, 1, 3, 20} }

\* a job count that takes a positive --jobs value as it is
final_jobs_exact(args_jobs, adaptive) ==
    IF ~args_jobs.given THEN Min(adaptive, IF adaptive <= 8 THEN adaptive ELSE 8)
    ELSE IF args_jobs.value = 0 THEN pm.cpu_count
    ELSE args_jobs.value

\* build.py main: max_godot_jobs and final_jobs, from args.jobs and the
\* adaptive count of the run
final_jobs(args_jobs, adaptive) ==
    LET max_godot_jobs ==
           IF args_jobs.given /\ args_jobs.value = 0 THEN pm.cpu_count
           ELSE IF args_jobs.given THEN args_jobs.value
           ELSE IF adaptive <= 8 THEN adaptive ELSE 8
    IN  IF args_jobs.given /\ args_jobs.value = 0
        THEN max_godot_jobs
        ELSE Min(adaptive, max_godot_jobs)

\* The bulk path sizes its pool for n projects: get_adaptive_job_count at
\* the load psutil reads, final_jobs, and export_projects_parallel's
\* batch_size = min(max_workers, len(project_files)).
CallBulkPool ==
    /\ call = NoCall
    /\ \E n \in ProjectCounts \ {0}, load \in Loads, a \in JobArgs :
          call' = [fn |-> "bulk_pool", project_count |-> n,
                   current_load |-> load, args_jobs |-> a,
                   max_workers |-> final_jobs(a, get_adaptive_job_count(n, load)),
                   ret |-> Min(final_jobs(a, get_adaptive_job_count(n, load)), n)]
    /\ UNCHANGED << engineVars, pm, environ >>

NextJobs ==
    \/ CallOptimal
    \/ CallDynamic
    \/ CallMemoryEfficient
    \/ CallAdaptive
    \/ CallBulkPool

SpecJobs == InitJobs /\ [][NextJobs]_vars

\* ------------------------------------------- output paths of targets
\* Project directories as paths below the projects root: directories in
\* different parts of the tree can have the same name.
Parents == {"2d", "3d", "gui"}
Names   == {"pong", "platformer"}
ProjectDirs == Parents \X Names
Trees == (SUBSET ProjectDirs) \ {{}}

\* AddTarget: project_path / export_path, export_path being
\* exports/web/index.html unless the caller gives another one
absolute_export_path(d) == d \o << "exports", "web", "index.html" >>

\* ScanForProjects over a tree: the output path of each target it adds
ScanOutputs(tree) == [ d \in tree |-> << absolute_export_path(d) >> ]

\* values of env['EXPORT_PRESET'] and str.lower() on them
ExportPresets == {"Web", "web", "Linux"}
Lower(str) == CASE str = "Web" -> "web" [] str = "Linux" -> "linux" [] OTHER -> str

\* godot_export_emitter: the targets of a project, from the NAME of its
\* directory only; the target passed in is not used
godot_export_emitter(d, preset) ==
    LET project_name == d[2]
        export_dir == << "build", project_name >>
    IN  IF Lower(preset) = "web"
        THEN << export_dir \o << << project_name, ".html" >> >>,
                export_dir \o << << project_name, ".js" >> >>,
                export_dir \o << << project_name, ".wasm" >> >>,
                export_dir \o << << project_name, ".pck" >> >> >>
        ELSE IF Lower(preset) = "linux"
        THEN << export_dir \o << << project_name, ".x86_64" >> >> >>
        ELSE << export_dir \o << << project_name, "" >> >> >>

\* create_export_targets: env.GodotExport(target, source) per project; the
\* builder's emitter replaces the target list
create_export_targets(tree, preset) ==
    [ d \in tree |-> godot_export_emitter(d, preset) ]

\* env.ScanForProjects(root) on a new environment
CallScanForProjects ==
    /\ call = NoCall
    /\ \E tree \in Trees :
          call' = [fn |-> "ScanForProjects", ret |-> ScanOutputs(tree)]
    /\ UNCHANGED << engineVars, pm, environ >>

\* create_export_targets(env, root)
CallCreateExportTargets ==
    /\ call = NoCall
    /\ \E tree \in Trees, preset \in ExportPresets :
          call' = [fn |-> "create_export_targets", preset |-> preset,
                   ret |-> create_export_targets(tree, preset)]
    /\ UNCHANGED << engineVars, pm, environ >>

\* ChangeDetector.detect_changes: a project is named by category/project
\* of a changed file; a build-system change empties the set ("rebuild all")
ChangeInfos(tree) ==
    { [build_system_changed |-> b, docs_changed |-> d,
       changed_projects |-> IF b THEN {} ELSE c] :
         b \in BOOLEAN, d \in BOOLEAN, c \in SUBSET tree }

\* build.py main, change detection: the set stays empty when detection is
\* off; with detection on and nothing changed main returns 0 at once
skips_build(detect, changes) ==
    /\ detect
    /\ ~changes.build_system_changed
    /\ ~changes.docs_changed
    /\ changes.changed_projects = {}

main_changed_projects(detect, changes) ==
    IF detect THEN changes.changed_projects ELSE {}

\* build.py main, build branch: the project files given to
\* export_projects_parallel are all those under the projects directory
build_project_files(tree, changed_projects) == tree

\* build.py main on a tree, up to the call of export_projects_parallel
CallBuild ==
    /\ call = NoCall
    /\ \E tree \in Trees, detect \in BOOLEAN :
       \E changes \in ChangeInfos(tree) :
          call' = [fn |-> "build", tree |-> tree,
                   changed_projects |-> main_changed_projects(detect, changes),
                   skipped |-> skips_build(detect, changes),
                   ret |-> IF skips_build(detect, changes) THEN {}
                           ELSE build_project_files(tree,
                                   main_changed_projects(detect, changes))]
    /\ UNCHANGED << engineVars, pm, environ >>

\* hashes a cache entry can hold: those of the contents, and that of a file
\* that was missing when the entry was written
StoredHashes == { ((c * 7) % 11) + 1 : c \in Contents \ {0} } \cup {0}

CacheEntries ==
    { [ project_hash |-> h, dependencies |-> f, success |-> TRUE ] :
        h \in StoredHashes,
        f \in UNION { [D -> StoredHashes] : D \in SUBSET Projects } }

\* dependency lists given to AddTarget; a file is named by the project
\* whose manifest it is
DepLists == UNION { [1..n -> Projects] : n \in 0..MaxDeps }

\* a BuildEnvironment over any disk and any cache entry for project 1
InitRebuild ==
    /\ InitRun
    /\ sink = "full"
    /\ jobs = 1
    /\ pm = [cpu_count |-> 2, available_memory |-> 16, soft_fd |-> 1024]
    /\ environ = [CI |-> FALSE, MAX_PARALLEL_JOBS |-> [kind |-> "unset"]]
    /\ call = NoCall
    /\ force_rebuild \in BOOLEAN
    /\ manifest \in [ Projects -> Contents ]
    /\ \E out \in {"none", "real"} :
          html = [ p \in Projects |-> IF p = 1 THEN out ELSE "none" ]
    /\ \E e \in CacheEntries \cup {NoEntry} :
          build_cache = [ p \in Projects |-> IF p = 1 THEN e ELSE NoEntry ]

\* env._needs_rebuild(target) for a target of project 1
CallNeedsRebuild ==
    /\ call = NoCall
    /\ \E deps \in DepLists :
          LET target == [ project_path |-> 1, dependencies |-> deps ] IN
          call' = [fn |-> "_needs_rebuild", target |-> target,
                   ret |-> needs_rebuild(target)]
    /\ UNCHANGED << engineVars, pm, environ >>

NextRebuild == CallNeedsRebuild

SpecRebuild == InitRebuild /\ [][NextRebuild]_vars

\* lists of export results: any ExportResult values, not only those an
\* export produces
ExportSizes == {None, 0, 2}
ExportTimes == {None, 3}
ExportResults ==
    [ success : BOOLEAN, project_path : Projects, rc : {"none"},
      error : {"None"}, export_size : ExportSizes, export_time : ExportTimes ]

ResultLists == UNION { [1..n -> ExportResults] : n \in 0..MaxResults }

\* exporter.get_export_summary(results)
CallSummary ==
    /\ call = NoCall
    /\ \E rs \in ResultLists :
          call' = [fn |-> "get_export_summary", results |-> rs,
                   ret |-> get_export_summary(rs)]
    /\ UNCHANGED << engineVars, pm, environ >>

InitSummary == Init /\ sink = "full" /\ ~force_rebuild /\ jobs = 1

NextSummary == CallSummary

SpecSummary == InitSummary /\ [][NextSummary]_vars

\* reporter.target_completed(project_dir.name, success, duration[, size]);
\* durations and sizes are counted in whole units
target_completed(target_name, success, output_size) ==
    [ event |-> "target_completed", target_name |-> target_name,
      success |-> success, duration |-> 1, output_size |-> output_size ]

\* godot_export_builder for project d: its return code and the events it
\* sends to the progress reporter.  templates is the answer of
\* validate_export_templates, out the way the subprocess ends, had_output
\* whether the export file was there before, importable whether
\* tools.progress_reporter can be imported.
godot_export_builder(d, templates, out, had_output, importable) ==
    LET project_name == d[2]
        exists == had_output \/ out \in {"exit0_written", "exit0_partial"}
        report(success) == IF importable
                           THEN << target_completed(project_name, success,
                                       IF success THEN 1 ELSE None) >>
                           ELSE << >>
    IN  IF ~templates THEN [ code |-> 1, events |-> << >> ]
        ELSE IF out \in {"timeout", "oserror"}
        THEN [ code |-> 1, events |-> << >> ]
        ELSE IF ExitStatus(out) = "zero"
        THEN IF exists THEN [ code |-> 0, events |-> report(TRUE) ]
             ELSE [ code |-> 1, events |-> << >> ]
        ELSE [ code |-> 1, events |-> report(FALSE) ]

\* SCons runs the GodotExport builder on one project
CallGodotExportBuilder ==
    /\ call = NoCall
    /\ \E d \in ProjectDirs, templates \in BOOLEAN, out \in Outcomes,
          had_output \in BOOLEAN, importable \in BOOLEAN :
          call' = [fn |-> "godot_export_builder", project |-> d,
                   templates |-> templates, out |-> out,
                   ret |-> godot_export_builder(d, templates, out, had_output,
                                                importable)]
    /\ UNCHANGED << engineVars, pm, environ >>

InitTargets == Init /\ sink = "full" /\ ~force_rebuild /\ jobs = 1

NextTargets ==
    \/ CallScanForProjects
    \/ CallCreateExportTargets
    \/ CallBuild
    \/ CallGodotExportBuilder

SpecTargets == InitTargets /\ [][NextTargets]_vars

\* scons_build.py: BuildEnvironment and its main
NextScons ==
    \/ NewEnvironment
    \/ ScanForProjects
    \/ BuildStart
    \/ \E i \in 1..MaxTargets : WorkerStart(i)
    \/ \E i \in 1..MaxTargets : WorkerFinish(i)
    \/ \E i \in 1..MaxTargets : Collect(i)
    \/ BuildEnd
    \/ BuildAbort
    \/ MainExit
    \/ \E p \in Projects, c \in Contents : Edit(p, c)
    \/ DamageCache

\* build.py: the bulk export path and the diagnostics self-test
NextBulk ==
    \/ BulkMain
    \/ BulkVerify
    \/ \E i \in Projects : BulkWorkerStart(i)
    \/ \E i \in Projects : BulkWorkerFinish(i)
    \/ \E i \in Projects : BulkCollect(i)
    \/ BulkEnd
    \/ test_single_export
    \/ \E p \in Projects, c \in Contents : Edit(p, c)

\* --------------------------------------------------- DependencyScanner
\* The tracked files of a project, in the order project_needs_rebuild
\* visits them: file 1 is project.godot, the others are what rglob finds.
\* A file is its content, 0 for a missing one; only project.godot can be
\* missing, rglob finds existing files only.  Files are below the 10 MB
\* above which a modification time stands for the hash.
ProjectFiles ==
    UNION { { f \in [1..n -> Contents] : \A k \in 2..n : f[k] # 0 } :
              n \in 1..MaxFiles }

\* DependencyScanner.get_file_hash of a readable file
scanner_file_hash(content) == ((content * 7) % 11) + 1

\* self.dependencies after load_cache: a hash, or nothing, for each file
DependencyCaches(files) ==
    [ DOMAIN files -> { scanner_file_hash(c) : c \in Contents \ {0} }
                         \cup {NoHash} ]

\* DependencyScanner.has_changed(file k): the answer and the dependencies
\* it leaves
has_changed(deps, files, k) ==
    IF files[k] = 0
    THEN [ changed |-> TRUE, deps |-> deps ]
    ELSE IF deps[k] = NoHash
    THEN [ changed |-> TRUE,
           deps |-> [deps EXCEPT ![k] = scanner_file_hash(files[k])] ]
    ELSE [ changed |-> deps[k] # scanner_file_hash(files[k]),
           deps |-> [deps EXCEPT ![k] = scanner_file_hash(files[k])] ]

\* DependencyScanner.project_needs_rebuild from file k on: it returns at the
\* first file that has changed
RECURSIVE needs_rebuild_from(_, _, _)
needs_rebuild_from(deps, files, k) ==
    IF k > Len(files)
    THEN [ rebuild |-> FALSE, file |-> None, deps |-> deps ]
    ELSE LET h == has_changed(deps, files, k) IN
         IF h.changed
         THEN [ rebuild |-> TRUE, file |-> k, deps |-> h.deps ]
         ELSE needs_rebuild_from(h.deps, files, k + 1)

project_needs_rebuild(deps, files) == needs_rebuild_from(deps, files, 1)

\* the first call on a new scanner
CallProjectNeedsRebuild ==
    /\ call = NoCall
    /\ \E files \in ProjectFiles :
       \E deps \in DependencyCaches(files) :
          call' = [fn |-> "project_needs_rebuild", files |-> files, calls |-> 1,
                   ret |-> project_needs_rebuild(deps, files)]
    /\ UNCHANGED << engineVars, pm, environ >>

\* the next call on the same scanner, no file having changed
CallProjectNeedsRebuildAgain ==
    /\ call.fn = "project_needs_rebuild"
    /\ call.calls < MaxCalls
    /\ call' = [call EXCEPT
                  !.calls = @ + 1,
                  !.ret = project_needs_rebuild(call.ret.deps, call.files)]
    /\ UNCHANGED << engineVars, pm, environ >>

InitScanner == Init /\ sink = "full" /\ ~force_rebuild /\ jobs = 1

NextScanner ==
    \/ CallProjectNeedsRebuild
    \/ CallProjectNeedsRebuildAgain

SpecScanner == InitScanner /\ [][NextScanner]_vars

\* the bulk path with a progress reporter whose calls can raise
InitFlaky ==
    /\ InitDisk
    /\ InitRun
    /\ sink = "flaky"
    /\ pm = [cpu_count |-> 2, available_memory |-> 16, soft_fd |-> 1024]
    /\ environ = [CI |-> FALSE, MAX_PARALLEL_JOBS |-> [kind |-> "unset"]]
    /\ call = NoCall

NextFlaky ==
    \/ NextBulk
    \/ BulkAbort

SpecFlaky == InitFlaky /\ [][NextFlaky]_vars

InitScons == Init /\ sink = "full"

SpecScons == InitScons /\ [][NextScons]_vars
SpecBulk  == Init /\ [][NextBulk]_vars

\* both tools run, in any order, over the same project tree
Next == NextScons \/ NextBulk
Spec == Init /\ [][Next]_vars

C2_CacheInvalidation ==
    [][ \A p \in Projects :
          (manifest'[p] # manifest[p]) =>
             \A k \in DOMAIN targets :
                IF targets[k].project_path = p
                   \/ p \in Range(targets[k].dependencies)
                THEN ~needs_rebuild(targets[k]) => needs_rebuild(targets[k])'
                ELSE needs_rebuild(targets[k])' = needs_rebuild(targets[k]) ]_vars

\* after an edit one target is stale for no reason but its changed hash, and a
\* target of another project is still up to date
C2_Witness ==
    /\ edits = 1
    /\ pc = "exited"
    /\ ~force_rebuild
    /\ \E k \in DOMAIN targets :
          LET p == targets[k].project_path IN
          /\ html[p] # "none"
          /\ manifest[p] # 0
          /\ build_cache[p] # NoEntry
          /\ build_cache[p].project_hash # get_file_hash(p)
          /\ needs_rebuild(targets[k])
    /\ \E k \in DOMAIN targets : ~needs_rebuild(targets[k])

\* C3: never more export jobs in flight than the pool was given workers.
C3_ConcurrencyBound == Cardinality(InFlight) <= jobs

\* the pool is saturated while a further job waits in its queue
C3_Witness ==
    /\ jobs >= 1
    /\ Cardinality(InFlight) = jobs
    /\ Queued # {}

\* C4 (as stated): once the run is over, every target whose export failed has
\* an index.html (the fallback page) and is counted as failed.
C4_FallbackGuarantee ==
    (tool = "scons" /\ pc = "exited") =>
       \A i \in DOMAIN job :
          (job[i] = "collected" /\ ~result[i].success) =>
             /\ html[to_build[i].project_path] # "none"
             /\ failed_builds >= 1

\* C5 (as stated, the "only if" half): an export attempt reported as
\* successful ended with exit status 0 and left its index.html.
C5_SuccessMeansExitZero ==
    \A i \in DOMAIN result :
       (tool = "scons" /\ result[i] # NoResult /\ attempts[i] >= 1
          /\ result[i].success) =>
            /\ result[i].rc = "zero"
            /\ html[to_build[i].project_path] # "none"

\* C6 (as stated): no per-target error leaves the batch, and a subprocess
\* that exits non-zero is recorded as a failed result with an error message.
C6_ErrorsBecomeResults ==
    /\ pc # "aborting"
    /\ \A i \in DOMAIN result :
          (result[i] # NoResult /\ result[i].rc = "nonzero") =>
             (~result[i].success /\ result[i].error # "None")

\* C7 (as stated): Build returns true iff no dispatched target failed; a run
\* in which a target failed exits non-zero unless continue-on-error was
\* given, and exits 0 when it was.
C7_ExitCode ==
    /\ (tool = "scons" /\ retval # "none") =>
          ((retval = "true") <=> (failed_builds = 0))
    /\ (/\ pc = "exited"
        /\ \/ tool = "scons" /\ failed_builds > 0
           \/ tool = "bulk" /\ summary # NoSummary /\ summary.failed > 0)
       => IF tool = "scons" /\ continue_on_error
          THEN exitCode = 0
          ELSE exitCode # 0

\* C8 (as stated): a pass that dispatched jobs wrote the cache entry of each
\* job exactly once and saved the cache exactly once.
C8_CacheWrittenOnce ==
    (tool = "scons" /\ pc = "exited" /\ job # << >>) =>
       /\ saves = 1
       /\ \A i \in DOMAIN writes : writes[i] = 1

C10_PreflightFallback ==
    [][ (preflight' = "failed" /\ passes' # passes) =>
          /\ \A i \in DOMAIN attempts' : attempts'[i] = 0
          /\ \A p \in Projects :
                (manifest[p] # 0) => html'[p] = "fallback" ]_vars

\* C11: get_optimal_job_count returns at least 1, and at least 2 on a machine
\* with two or more cores when MAX_PARALLEL_JOBS is not set.
C11_OptimalFloor ==
    (call.fn = "get_optimal_job_count") =>
       /\ call.ret >= 1
       /\ (pm.cpu_count >= 2 /\ environ.MAX_PARALLEL_JOBS.kind = "unset")
             => call.ret >= 2

\* the call returned although memory and descriptors allow a single job on a
\* multi-core machine, or although the override asks for less than one job
C11_Witness ==
    /\ call.fn = "get_optimal_job_count"
    /\ \/ /\ pm.cpu_count >= 2
          /\ environ.MAX_PARALLEL_JOBS.kind = "unset"
          /\ pm.available_memory < 6
          /\ optimal_jobs = 1
          /\ call.ret = 2
       \/ /\ environ.MAX_PARALLEL_JOBS.kind = "int"
          /\ environ.MAX_PARALLEL_JOBS.value < 1
          /\ call.ret = 1

\* C12: with MAX_PARALLEL_JOBS set to a positive integer k,
\* get_optimal_job_count returns k whatever the machine and the CI flag are.
C12_OverrideWins ==
    (/\ call.fn = "get_optimal_job_count"
     /\ environ.MAX_PARALLEL_JOBS.kind = "int"
     /\ environ.MAX_PARALLEL_JOBS.value >= 1)
    => call.ret = environ.MAX_PARALLEL_JOBS.value

\* an override of 12 was returned on a machine whose own count is lower
C12_Witness ==
    /\ call.fn = "get_optimal_job_count"
    /\ environ.MAX_PARALLEL_JOBS.kind = "int"
    /\ environ.MAX_PARALLEL_JOBS.value = 12
    /\ optimal_jobs < 12
    /\ call.ret = 12

C14_CacheLoss ==
    [][ /\ (tool' = "scons" /\ passes' # passes /\ diskCache.kind # "ok") =>
              (build_cache' = EmptyCache /\ preflight' # "none")
        /\ (pc = "idle" /\ pc' # "idle" /\ build_cache = EmptyCache) =>
              to_build' = targets ]_vars

\* C15 (as stated): the targets made for the projects of a tree have
\* pairwise different output paths, also for directories of the same name.
C15_UniqueOutputs ==
    (call.fn \in {"ScanForProjects", "create_export_targets"}) =>
       \A d1, d2 \in DOMAIN call.ret :
          (d1 # d2) => (Range(call.ret[d1]) \cap Range(call.ret[d2]) = {})

\* C16 (as stated): when change detection gives a non-empty set of changed
\* projects, only projects of that set are dispatched for export; when the
\* set is empty, every project found is.
C16_ChangeFilter ==
    (call.fn = "build" /\ ~call.skipped) =>
       IF call.changed_projects # {}
       THEN call.ret \subseteq call.changed_projects
       ELSE call.ret = call.tree

\* C17: the summary of a list of export results counts every result as
\* successful or failed, names the failed results one by one, totals size
\* and time over the successful results only, and gives 0 for the two
\* quotients when their divisor is zero.
C17_SummaryArithmetic ==
    (call.fn = "get_export_summary") =>
       LET rs == call.results
           sm == call.ret
           ok == { k \in DOMAIN rs : rs[k].success }
           bad == { k \in DOMAIN rs : ~rs[k].success }
           Given(x) == IF x = None THEN 0 ELSE x
           SizeOf[ K \in SUBSET DOMAIN rs ] ==
              IF K = {} THEN 0
              ELSE LET k == CHOOSE x \in K : TRUE
                   IN  Given(rs[k].export_size) + SizeOf[K \ {k}]
           TimeOf[ K \in SUBSET DOMAIN rs ] ==
              IF K = {} THEN 0
              ELSE LET k == CHOOSE x \in K : TRUE
                   IN  Given(rs[k].export_time) + TimeOf[K \ {k}]
       IN  /\ sm.total_projects = Len(rs)
           /\ sm.total_projects = sm.successful + sm.failed
           /\ sm.successful = Cardinality(ok)
           /\ Len(sm.failed_projects) = Cardinality(bad)
           /\ \A p \in Projects :
                 Cardinality({ k \in DOMAIN sm.failed_projects :
                                  sm.failed_projects[k] = p })
                   = Cardinality({ k \in bad : rs[k].project_path = p })
           /\ sm.total_export_size = SizeOf[ok]
           /\ sm.total_export_time = TimeOf[ok]
           /\ sm.success_rate.den # 0
           /\ sm.average_export_time.den # 0
           /\ (rs = << >>) => (sm.success_rate = Zero)
           /\ (ok = {}) => (sm.average_export_time = Zero)
           /\ (rs # << >>) =>
                 (sm.success_rate = [num |-> Cardinality(ok), den |-> Len(rs)])
           /\ (ok # {}) =>
                 (sm.average_export_time =
                    [num |-> TimeOf[ok], den |-> Cardinality(ok)])

\* a list with a failed result that carries a size, and no success
C17_Witness ==
    /\ call.fn = "get_export_summary"
    /\ call.results # << >>
    /\ \A k \in DOMAIN call.results : ~call.results[k].success
    /\ \E k \in DOMAIN call.results : call.results[k].export_size = 2
    /\ call.ret.failed = 2

\* C18: _needs_rebuild returns False exactly when force_rebuild is off, the
\* output exists, the cache has an entry for the target, the manifest exists
\* with the stored project_hash, and every dependency exists with the hash
\* stored for it; otherwise it returns True.
C18_NeedsRebuild ==
    (call.fn = "_needs_rebuild") =>
       LET t == call.target
           p == t.project_path
           UpToDate ==
              /\ ~force_rebuild
              /\ html[p] # "none"
              /\ build_cache[p] # NoEntry
              /\ manifest[p] # 0
              /\ build_cache[p].project_hash = get_file_hash(p)
              /\ \A d \in Range(t.dependencies) :
                    /\ manifest[d] # 0
                    /\ d \in DOMAIN build_cache[p].dependencies
                    /\ build_cache[p].dependencies[d] = get_file_hash(d)
       IN  (call.ret = FALSE) <=> UpToDate

\* a target with a dependency besides its own manifest is found up to date
C18_Witness ==
    /\ call.fn = "_needs_rebuild"
    /\ call.ret = FALSE
    /\ \E i \in DOMAIN call.target.dependencies :
          call.target.dependencies[i] # call.target.project_path

\* C19 (as stated): the adaptive job count is the smaller of the
\* memory-efficient count for the project count and the dynamic count for
\* the load, and it is at least 1.
C19_Adaptive ==
    (call.fn = "get_adaptive_job_count") =>
       /\ call.ret = Min(get_memory_efficient_job_count(call.project_count),
                         get_dynamic_job_count(call.current_load))
       /\ call.ret >= 1

\* C20 (as stated): the memory-efficient count never exceeds the optimal
\* count nor the file-descriptor ceiling (soft limit // 30 in CI, // 40
\* outside), whatever the project count; in CI it is at most 6 above 100
\* projects and at most 8 above 50; outside CI at most 2 above 100 and at
\* most 3 above 50.
C20_Original ==
    (call.fn = "get_memory_efficient_job_count") =>
       LET n == call.project_count
           fd_ceiling == IF is_ci THEN pm.soft_fd \div 30
                         ELSE pm.soft_fd \div 40
       IN  /\ call.ret <= get_optimal_job_count
           /\ call.ret <= fd_ceiling
           /\ (is_ci /\ n > 100) => call.ret <= 6
           /\ (is_ci /\ n > 50) => call.ret <= 8
           /\ (~is_ci /\ n > 100) => call.ret <= 2
           /\ (~is_ci /\ n > 50) => call.ret <= 3

\* C20 (amended): the memory-efficient count never exceeds the optimal
\* count; above 100 projects it is at most the file-descriptor ceiling and
\* at most 6 in CI, 4 outside; above 50 projects it is at most 8 in CI, 5
\* outside; up to 50 projects it is the optimal count.
C20_MemoryEfficient ==
    (call.fn = "get_memory_efficient_job_count") =>
       LET n == call.project_count
           fd_ceiling == IF is_ci THEN pm.soft_fd \div 30
                         ELSE pm.soft_fd \div 40
       IN  /\ call.ret <= get_optimal_job_count
           /\ (n > 100) => call.ret <= fd_ceiling
           /\ (is_ci /\ n > 100) => call.ret <= 6
           /\ (is_ci /\ n > 50) => call.ret <= 8
           /\ (~is_ci /\ n > 100) => call.ret <= 4
           /\ (~is_ci /\ n > 50) => call.ret <= 5
           /\ (n <= 50) => call.ret = get_optimal_job_count

\* outside CI, above 100 projects, four jobs: more than the stated cap of 2
C20_Witness ==
    /\ call.fn = "get_memory_efficient_job_count"
    /\ ~is_ci
    /\ call.project_count > 100
    /\ call.ret = 4

\* C21: get_dynamic_job_count(load) is max(1, floor(optimal / 2)) above a
\* load of 80, max(1, floor(optimal * 0.75)) above 60 and up to 80, and
\* optimal up to 60; so it is never above optimal, never below 1, and never
\* larger for a larger load.
C21_DynamicJobs ==
    (call.fn = "get_dynamic_job_count") =>
       LET optimal == get_optimal_job_count
           load == call.current_load
           half == CHOOSE q \in 0..optimal :
                      2 * q <= optimal /\ optimal < 2 * (q + 1)
           three_quarters == CHOOSE q \in 0..optimal :
                                4 * q <= 3 * optimal /\ 3 * optimal < 4 * (q + 1)
           AtLeastOne(x) == IF x < 1 THEN 1 ELSE x
       IN  /\ (load > 80) => call.ret = AtLeastOne(half)
           /\ (load > 60 /\ load <= 80) => call.ret = AtLeastOne(three_quarters)
           /\ (load <= 60) => call.ret = optimal
           /\ call.ret <= optimal
           /\ call.ret >= 1
           /\ \A higher \in Loads :
                 (higher >= load) => get_dynamic_job_count(higher) <= call.ret

\* a single job is kept under a load above 80
C21_Witness ==
    /\ call.fn = "get_dynamic_job_count"
    /\ call.current_load > 80
    /\ get_optimal_job_count = 1
    /\ call.ret = 1

\* C22 (as stated): a save of the cache leaves on disk either the complete
\* previous file or the complete new cache, never a partial document.
C22_AtomicSave ==
    [][ (saves' # saves) =>
           \/ diskCache' = diskCache
           \/ diskCache' = [kind |-> "ok", data |-> build_cache] ]_vars

\* C23 (as stated): no two workers export the same project at the same
\* time, whatever the target list given to Build.
C23_OneWorkerPerTarget ==
    (tool = "scons") =>
       \A i, j \in InFlight :
          (i # j) => to_build[i].project_path # to_build[j].project_path

\* C24 (as stated): when Build is over, the cache entries and the tallies
\* are those given by the outcomes of the jobs alone, whatever the order in
\* which the jobs completed: every job that returned a result has its entry
\* in the cache and is counted once.
C24_OrderIndependent ==
    (tool = "scons" /\ pc \in {"returned", "raised"} /\ job # << >>) =>
       LET returned == { i \in DOMAIN job : result[i] # NoResult } IN
       /\ \A i \in returned :
             build_cache[to_build[i].project_path]
                = CacheEntry(to_build[i], result[i])
       /\ successful_builds
            = Cardinality({ i \in returned : result[i].success })
       /\ failed_builds
            = Cardinality({ i \in returned : ~result[i].success })

\* C25 (as stated): when the export of one target of a Build failed, every
\* sibling that ran has its result collected and its cache entry written,
\* as it would had that target succeeded.
C25_FailureContained ==
    (tool = "scons" /\ pc \in {"returned", "raised"} /\ job # << >>) =>
       \A i \in DOMAIN job :
          (job[i] = "reraised" \/ (result[i] # NoResult /\ ~result[i].success))
          => \A k \in DOMAIN job \ {i} :
                (result[k] # NoResult) =>
                   /\ job[k] = "collected"
                   /\ writes[k] = 1

\* C26 (as stated): an export job that ran its subprocess sends exactly one
\* target_completed event, with the name of the target, its success flag
\* and a duration, whatever the outcome of the subprocess.
C26_OneCompletionEvent ==
    (call.fn = "godot_export_builder" /\ call.templates) =>
       /\ Len(call.ret.events) = 1
       /\ call.ret.events[1].event = "target_completed"
       /\ call.ret.events[1].target_name = call.project[2]
       /\ call.ret.events[1].success = (call.ret.code = 0)
       /\ call.ret.events[1].duration # None

\* C27 (as stated): the bulk build never reports success for a project
\* whose exports/web/index.html is only the fallback placeholder.
C27_FallbackIsNotSuccess ==
    (tool = "bulk") =>
       \A k \in DOMAIN results :
          results[k].success => html[results[k].project_path] # "fallback"

\* C28 (as stated): the list export_projects_parallel returns holds exactly
\* one result for each project it was given.
C28_OneResultPerProject ==
    (tool = "bulk" /\ pc = "exporting"
       /\ \A i \in DOMAIN job : job[i] = "collected") =>
       /\ Len(results) = Len(project_files)
       /\ \A i \in DOMAIN project_files :
             Cardinality({ k \in DOMAIN results :
                             results[k].project_path = project_files[i] }) = 1

\* C29 (as stated): a Build dispatches every target whose cache entry
\* records a failed attempt, also when its sources are unchanged.
C29_FailedIsStale ==
    [][ (pc = "idle" /\ pc' # "idle") =>
           \A k \in DOMAIN targets :
              LET p == targets[k].project_path IN
              (/\ build_cache[p] # NoEntry
               /\ ~build_cache[p].success
               /\ build_cache[p].project_hash = get_file_hash(p))
              => targets[k] \in Range(to_build') ]_vars

\* C30 (as stated): a second call of project_needs_rebuild on a project
\* (a directory with a project.godot), with no file changed since the
\* first, returns (False, None).
C30_ScannerIdempotent ==
    (call.fn = "project_needs_rebuild" /\ call.calls >= 2
       /\ call.files[1] # 0) =>
       /\ ~call.ret.rebuild
       /\ call.ret.file = None

====
